---------------------------- MODULE Spec2Model ----------------------------
(***************************************************************************)
(* Model of piclab.cpp: a Win32 tool that prompts for a label, draws it    *)
(* on a bottom scrim of a PNG and saves the result either over the         *)
(* original (temp file + MoveFileExW) or as a "_labeled" sibling copy.     *)
(*                                                                         *)
(* Paths and texts are sequences of one-character strings.  Lengths in     *)
(* the label geometry are exact thousandths of a pixel, so that 0.012*h,   *)
(* 0.05*h and 0.15*h are integers; the rounding of the (REAL) casts is     *)
(* below that resolution and is not modelled.                              *)
(***************************************************************************)
EXTENDS Integers, Sequences, FiniteSets, TLC

VARIABLES
    pathTest,   \* inputs and results of the PathWithSuffixBeforeExt runs
    geom,       \* image size, measured text and the label geometry locals
    tempTest,   \* the clock and the results of successive GetTempSiblingPath calls
    promptTest, \* one prompt: the edit text, the event, what PromptForText returns
    race,       \* two instances of the tool overwriting the same file
    lastSaved,  \* the last successful save of an earlier run on this file
    argc,       \* wWinMain: number of command-line words
    path,       \* wWinMain: argv[1]
    fs,         \* the files on disk: path -> content
    fsAtStart,  \* the files on disk when the current run started
    pc,         \* where the run stands
    runs,       \* how many times the tool has been started
    st,         \* InputState: result, accepted (and the edit box text)
    label,      \* wWinMain: label
    overwrite,  \* wWinMain: overwrite
    gdiplus,    \* whether the GDI+ runtime is started
    bmp,        \* ProcessAndSave: the bitmap held, NoBitmap when none
    tmp,        \* ProcessAndSave: tmp
    dst,        \* ProcessAndSave: dst
    ok,         \* ProcessAndSave: ok, its return value
    savedPath,  \* wWinMain: savedPath (outSavedPath)
    err,        \* wWinMain: err (outError)
    exitCode,   \* the value wWinMain returned, -1 while it runs
    trace       \* the calls and dialogs of the current run, in order

vars == <<pathTest, geom, tempTest, promptTest, race, lastSaved, argc, path, fs, fsAtStart, pc, runs, st, label,
          overwrite, gdiplus, bmp, tmp, dst, ok, savedPath, err, exitCode,
          trace>>

----------------------------------------------------------------------------
(* Bounds *)

MaxPathLen == 3      \* longest path argument
MaxSuffixLen == 1    \* longest suffix handed to PathWithSuffixBeforeExt
MaxW == 17           \* widest image, in pixels
MaxH == 700          \* tallest image, in pixels
MaxTextSteps == 15   \* measured text heights are 0..MaxTextSteps steps
TextStep == 10000    \* one step of measured text height, in 1/1000 pixel
MaxArgLen == 1       \* longest path the tool is started on
MaxTextLen == 1      \* longest text typed into the prompt
MaxRuns == 2         \* how many times the tool is started on the file
TickBase == 10       \* smallest GetTickCount() value
MaxTick == 0         \* GetTickCount() is TickBase .. TickBase + MaxTick
MaxElapsed == 2      \* ticks that pass while GetTempSiblingPath is called again
MaxCalls == 2        \* successive GetTempSiblingPath calls of one process
MaxPromptLen == 3    \* characters typed into the label window

----------------------------------------------------------------------------
(* Strings *)

PathChars == {"a", ".", "\\", "/"}

BoundedSeq(S, n) == UNION {[1..k -> S] : k \in 0..n}

Max(a, b) == IF a >= b THEN a ELSE b
Min(a, b) == IF a <= b THEN a ELSE b

\* std::wstring::npos, with positions counted from 0 as in the source
npos == -1

\* std::wstring::find_last_of: the largest 0-based position of s holding a
\* character of chars, npos when there is none.  Scans from the end.
FindLastFrom(s, chars, i) ==
    LET hits == {k \in 1..i : s[k] \in chars}
    IN  IF hits = {} THEN npos
        ELSE (CHOOSE k \in hits : \A m \in hits : m <= k) - 1

find_last_of(s, chars) == FindLastFrom(s, chars, Len(s))

\* std::wstring::insert(pos, str)
insert(s, pos, str) == SubSeq(s, 1, pos) \o str \o SubSeq(s, pos + 1, Len(s))

\* the values of the variables a specification does not use
NoGeom == [w |-> 0, h |-> 0, textH |-> 0, pad |-> 0, fontPt |-> 0,
           scrimH |-> 0, scrimRect |-> <<0, 0, 0, 0>>,
           textRect |-> <<0, 0, 0, 0>>, step |-> "idle"]

NoPathTest == [P |-> <<>>, S1 |-> <<>>, S2 |-> <<>>,
               r1 |-> <<>>, r2 |-> <<>>, step |-> 0]

NoTempTest == [original |-> <<>>, now |-> 0, results |-> <<>>]

NoPromptTest == [text |-> <<>>, event |-> "none", result |-> <<>>,
                 accepted |-> FALSE, out |-> <<>>, returned |-> FALSE,
                 choice |-> "none", step |-> "idle"]

NoRace == [step |-> "idle"]

----------------------------------------------------------------------------
(* Path utilities *)

\* A slip of PathWithSuffixBeforeExt: the "no extension" branch returns the
\* fpath itself and forgets the suffix.
PathWithSuffixBeforeExt_DropsSuffix(fpath, suffix) ==
    LET dot == find_last_of(fpath, {"."})
        slash == find_last_of(fpath, {"\\", "/"})
    IN  IF dot = npos \/ (slash # npos /\ dot < slash)
        THEN fpath
        ELSE insert(fpath, dot, suffix)

\* A slip of PathWithSuffixBeforeExt: the separator test is left out, so a
\* '.' of a parent directory counts as the extension.
PathWithSuffixBeforeExt_NoSlashTest(fpath, suffix) ==
    LET dot == find_last_of(fpath, {"."})
    IN  IF dot = npos
        THEN fpath \o suffix
        ELSE insert(fpath, dot, suffix)

\* fpath is the parameter path
PathWithSuffixBeforeExt(fpath, suffix) ==
    LET dot == find_last_of(fpath, {"."})
        slash == find_last_of(fpath, {"\\", "/"})
    IN  IF dot = npos \/ (slash # npos /\ dot < slash)
        THEN fpath \o suffix          \* no extension
        ELSE insert(fpath, dot, suffix)

----------------------------------------------------------------------------
(* Reference results for the path claims, stated on the final component *)

Separators == {"\\", "/"}

\* positions (1-based) of the separators of p
SepPositions(p) == {i \in 1..Len(p) : p[i] \in Separators}

\* 1-based positions of the '.' that lie after every separator of p
ExtDots(p) == {i \in 1..Len(p) : p[i] = "." /\ \A j \in SepPositions(p) : j < i}

HasExtension(p) == ExtDots(p) # {}

LastExtDot(p) == CHOOSE i \in ExtDots(p) : \A j \in ExtDots(p) : j <= i

\* p with s put immediately before the last '.' of its final component,
\* or appended when the final component has no '.'
RefInsertBeforeExt(p, s) ==
    IF HasExtension(p)
    THEN LET d == LastExtDot(p)
         IN  [i \in 1..(Len(p) + Len(s)) |->
                IF i < d THEN p[i]
                ELSE IF i < d + Len(s) THEN s[i - d + 1]
                ELSE p[i - Len(s)]]
    ELSE [i \in 1..(Len(p) + Len(s)) |->
            IF i <= Len(p) THEN p[i] ELSE s[i - Len(p)]]

----------------------------------------------------------------------------
(* Label geometry (ProcessAndSave, lines 232-261), in 1/1000 pixel *)

PadMin == 8000          \* 8.0
PadPerH == 12           \* h * 0.012
FontMin == 10000        \* 10.0
FontPerH == 42          \* h * 0.042
ScrimMin == 18000       \* 18.0
ScrimMinPerH == 50      \* h * 0.05
ScrimMaxPerH == 150     \* h * 0.15

\* REAL pad = max(8.0, h * 0.012)
Pad(h) == Max(PadMin, PadPerH * h)

\* REAL fontPt = max(10.0, h * 0.042)
FontPt(h) == Max(FontMin, FontPerH * h)

\* A slip of ScrimHeight: the ceiling is applied first and the floor last,
\* so the floor wins on small images.
ScrimHeight_FloorLast(h, textH) ==
    LET s0 == textH + 2 * Pad(h)
        s1 == Min(s0, ScrimMaxPerH * h)
    IN  Max(s1, Max(ScrimMinPerH * h, ScrimMin))

\* A slip of ScrimHeight: the 15% ceiling is left out.
ScrimHeight_NoCeiling(h, textH) ==
    LET s0 == textH + 2 * Pad(h)
    IN  Max(s0, Max(ScrimMinPerH * h, ScrimMin))

\* scrimH = bounds.Height + 2 * pad; then max(.., max(h*0.05, 18.0));
\* then min(.., h*0.15)
ScrimHeight(h, textH) ==
    LET s0 == textH + 2 * Pad(h)
        s1 == Max(s0, Max(ScrimMinPerH * h, ScrimMin))
    IN  Min(s1, ScrimMaxPerH * h)

\* RectF as <<X, Y, Width, Height>>
\* RectF scrimRect(0, h - scrimH, w, scrimH)
ScrimRect(w, h, scrimH) == <<0, 1000 * h - scrimH, 1000 * w, scrimH>>

\* A slip of TextRect: the width is not reduced by the padding.
TextRect_FullWidth(w, h, pad, scrimH) ==
    <<pad, 1000 * h - scrimH + pad, 1000 * w, scrimH - 2 * pad>>

\* RectF textRect(pad, h - scrimH + pad, w - 2 * pad, scrimH - 2 * pad)
TextRect(w, h, pad, scrimH) ==
    <<pad, 1000 * h - scrimH + pad, 1000 * w - 2 * pad, scrimH - 2 * pad>>

----------------------------------------------------------------------------
(* GetTempSiblingPath *)

kLabeled == <<"_", "l", "a", "b", "e", "l", "e", "d">>              \* L"_labeled"
kLabelTmp == <<"_", "l", "a", "b", "e", "l", "_", "t", "m", "p", "_">>  \* L"_label_tmp_"
kPng == <<".", "p", "n", "g">>                                      \* L".png"

Digits == <<"0", "1", "2", "3", "4", "5", "6", "7", "8", "9">>

\* swprintf_s "%u": the decimal digits of an unsigned number
RECURSIVE ToDecimal(_)
ToDecimal(n) ==
    IF n < 10 THEN <<Digits[n + 1]>>
    ELSE ToDecimal(n \div 10) \o <<Digits[(n % 10) + 1]>>

\* the sizes, in characters with the terminator, of the buffers of lines
\* 80, 82 and 84
MAX_PATH == 260
MAX_DRIVE == 3
MAX_DIR == 256
MAX_FNAME == 256
MAX_EXT == 256

\* what a secure CRT call yields when its result does not fit the buffer:
\* the invalid-parameter handler ends the process
InvalidParameter == <<"invalid parameter">>

\* _wsplitpath_s: drive ("X:" when the second character is ':'), dir (up to
\* and including the last separator), fname (up to the last '.' of the rest)
\* and ext (from that '.').  When a part does not fit its buffer all four
\* are emptied (ERANGE, which line 81 ignores).
SplitPath(original) ==
    LET hasDrive == Len(original) >= 2 /\ original[2] = ":"
        drive == IF hasDrive THEN SubSeq(original, 1, 2) ELSE <<>>
        rest == IF hasDrive THEN SubSeq(original, 3, Len(original)) ELSE original
        slash == find_last_of(rest, {"\\", "/"})
        dir == SubSeq(rest, 1, slash + 1)
        name == SubSeq(rest, slash + 2, Len(rest))
        dot == find_last_of(name, {"."})
        fname == IF dot = npos THEN name ELSE SubSeq(name, 1, dot)
        ext == IF dot = npos THEN <<>> ELSE SubSeq(name, dot + 1, Len(name))
        fits == /\ Len(drive) < MAX_DRIVE
                /\ Len(dir) < MAX_DIR
                /\ Len(fname) < MAX_FNAME
                /\ Len(ext) < MAX_EXT
    IN  IF fits
        THEN [drive |-> drive, dir |-> dir, fname |-> fname, ext |-> ext]
        ELSE [drive |-> <<>>, dir |-> <<>>, fname |-> <<>>, ext |-> <<>>]

\* _wmakepath_s(folder, drive, dir, L"", L""): the drive, then the directory
\* with a trailing separator, in a buffer of MAX_PATH characters
MakeFolder(drive, dir) ==
    LET made == drive \o dir \o
                  (IF dir # <<>> /\ dir[Len(dir)] \notin {"\\", "/"}
                   THEN <<"\\">> ELSE <<>>)
    IN  IF Len(made) < MAX_PATH THEN made ELSE InvalidParameter

\* GetTempSiblingPath with GetTickCount() = tick: swprintf_s into a buffer
\* of MAX_PATH characters
GetTempSiblingPath(original, tick) ==
    LET parts == SplitPath(original)
        folder == MakeFolder(parts.drive, parts.dir)
        printed == folder \o parts.fname \o kLabelTmp \o ToDecimal(tick) \o kPng
    IN  IF folder = InvalidParameter \/ Len(printed) >= MAX_PATH
        THEN InvalidParameter
        ELSE printed

----------------------------------------------------------------------------
(* The program: wWinMain, PromptForText / InputWndProc, ProcessAndSave *)

\* iswspace on the characters of the model: space, tab, line feed, vertical
\* tab, form feed, carriage return
Whitespace == {" ", "\t", "\n", "", "\f", "\r"}
TextChars == {"x", " "}
PromptChars == {"x", " ", "\t"}

\* Trim: a and b are the 0-based bounds the two while loops settle on
\* first loop: the smallest position from a on where "a < b and s[a] is
\* whitespace" fails
SkipLeading(s, a, b) ==
    IF a >= b THEN a
    ELSE LET stops == {k \in a..b : k = b \/ s[k + 1] \notin Whitespace}
         IN  CHOOSE k \in stops : \A m \in a..(k - 1) : m \notin stops

\* second loop: the largest position down from b where "b > a and s[b - 1]
\* is whitespace" fails
SkipTrailing(s, a, b) ==
    IF b <= a THEN b
    ELSE LET stops == {k \in a..b : k = a \/ s[k] \notin Whitespace}
         IN  CHOOSE k \in stops : \A m \in (k + 1)..b : m \notin stops

\* A slip of Trim: the second loop is missing.
Trim_LeadingOnly(s) == SubSeq(s, SkipLeading(s, 0, Len(s)) + 1, Len(s))

Trim(s) ==
    LET a == SkipLeading(s, 0, Len(s))
        b == SkipTrailing(s, a, Len(s))
    IN  SubSeq(s, a + 1, b)

\* WCHAR buf[1024]
BufSize == 1024

\* GetWindowTextW(hEdit, buf, nMaxCount): at most nMaxCount - 1 characters of
\* the edit text are copied
GetWindowTextW(text, nMaxCount) ==
    SubSeq(text, 1, Min(Len(text), nMaxCount - 1))

\* A slip of Accepted: OK accepts whatever the edit box holds.
Accepted_Always(result) == TRUE

\* st->accepted = !st->result.empty()
Accepted(result) == result # <<>>

\* File contents: the image a file holds, the labels drawn on it so far, and
\* whether the encoder finished writing it.
Image(id) == [img |-> id, labels |-> <<>>, complete |-> TRUE]
NoBitmap == [img |-> "none", labels |-> <<>>, complete |-> TRUE]

\* lines 226-264: the scrim and the label are drawn into the bitmap
DrawLabel(bitmap, text) == [bitmap EXCEPT !.labels = Append(@, text)]

\* what a file holds while Bitmap::Save is still writing it
Torn(bitmap) == [bitmap EXCEPT !.complete = FALSE]

\* Bitmap::FromFile succeeds only on a file that holds an image
Decodable(content) == content.img # "junk" /\ content.complete

\* A slip of WriteFile: an existing file is opened for append, so the labels
\* it already holds stay below the new ones.
WriteFile_Appends(f, p, c) ==
    [q \in DOMAIN f \cup {p} |->
        IF q # p THEN f[q]
        ELSE IF p \in DOMAIN f THEN [c EXCEPT !.labels = f[p].labels \o @]
        ELSE c]

\* a file system with file p holding content c
WriteFile(f, p, c) == [q \in DOMAIN f \cup {p} |-> IF q = p THEN c ELSE f[q]]

\* DeleteFileW
RemoveFile(f, p) == [q \in DOMAIN f \ {p} |-> f[q]]

\* A slip of MoveFile: the file is copied over the target and the source
\* of the move stays.
MoveFile_Copies(f, from, to) == WriteFile(f, to, f[from])

\* MoveFileExW(from, to, MOVEFILE_REPLACE_EXISTING | MOVEFILE_COPY_ALLOWED)
MoveFile(f, from, to) ==
    IF from = to THEN f ELSE RemoveFile(WriteFile(f, to, f[from]), from)

\* A slip of OverwriteTarget: the bitmap is saved straight onto the original.
OverwriteTarget_InPlace(srcPath, tick) == srcPath

\* line 276: std::wstring tmp = GetTempSiblingPath(srcPath)
OverwriteTarget(srcPath, tick) == GetTempSiblingPath(srcPath, tick)

\* line 292: std::wstring dst = PathWithSuffixBeforeExt(srcPath, L"_labeled")
CopyTarget(srcPath) == PathWithSuffixBeforeExt(srcPath, kLabeled)

Ev(op) == [op |-> op, path |-> <<>>]
EvP(op, p) == [op |-> op, path |-> p]

Ops(tr) == {tr[i].op : i \in 1..Len(tr)}
Count(tr, op) == Cardinality({i \in 1..Len(tr) : tr[i].op = op})

\* no run has saved anything yet
NoSave == [overwrite |-> FALSE, label |-> <<>>, path |-> <<>>,
           source |-> NoBitmap, content |-> NoBitmap]

NoInputState == [result |-> <<>>, accepted |-> FALSE, text |-> <<>>]

mainVars == <<lastSaved, argc, path, fs, fsAtStart, pc, runs, st, label, overwrite,
              gdiplus, bmp, tmp, dst, ok, savedPath, err, exitCode, trace>>

\* the locals of a run before it starts
FreshRun ==
    /\ pc' = "wWinMain"
    /\ st' = NoInputState
    /\ label' = <<>>
    /\ overwrite' = FALSE
    /\ gdiplus' = FALSE
    /\ bmp' = NoBitmap
    /\ tmp' = <<>>
    /\ dst' = <<>>
    /\ ok' = FALSE
    /\ savedPath' = <<>>
    /\ err' = ""
    /\ exitCode' = -1
    /\ trace' = <<>>

MainIdle ==
    /\ lastSaved = NoSave
    /\ argc = 1
    /\ path = <<>>
    /\ fs = <<>>
    /\ fsAtStart = <<>>
    /\ pc = "idle"
    /\ runs = 0
    /\ st = NoInputState
    /\ label = <<>>
    /\ overwrite = FALSE
    /\ gdiplus = FALSE
    /\ bmp = NoBitmap
    /\ tmp = <<>>
    /\ dst = <<>>
    /\ ok = FALSE
    /\ savedPath = <<>>
    /\ err = ""
    /\ exitCode = -1
    /\ trace = <<>>

\* The files that may exist when the tool is started on path p: the file
\* itself (an image or something that is no image) and a file that already
\* bears the "_labeled" name.
InitialFileSystems(p) ==
    LET labeled == RefInsertBeforeExt(p, kLabeled)
        srcs == IF p = <<>> THEN {<<>>}
                ELSE {<<>>, <<Image("A")>>, <<Image("junk")>>}
        olds == {<<>>, <<Image("B")>>}
    IN  {[q \in (IF s = <<>> THEN {} ELSE {p}) \cup
                (IF o = <<>> THEN {} ELSE {labeled}) |->
            IF q = p /\ s # <<>> THEN s[1] ELSE o[1]] : s \in srcs, o \in olds}

\* the characters of the path argument; '/' is treated as the backslash is
\* (lines 69 and 81) and is left to the path specifications
ArgChars == {"a", ".", "\\"}

EditTexts == BoundedSeq(TextChars, MaxTextLen)
Ticks == {TickBase + k : k \in 0..MaxTick}

\* the process is started from Explorer, with or without a path argument
Init ==
    /\ pathTest = NoPathTest
    /\ geom = NoGeom
    /\ tempTest = NoTempTest
    /\ promptTest = NoPromptTest
    /\ race = NoRace
    /\ lastSaved = NoSave
    /\ argc \in {1, 2}
    /\ path \in (IF argc < 2 THEN {<<>>} ELSE BoundedSeq(ArgChars, MaxArgLen))
    /\ fs \in InitialFileSystems(path)
    /\ fsAtStart = fs
    /\ pc = "wWinMain"
    /\ runs = 1
    /\ st = NoInputState
    /\ label = <<>>
    /\ overwrite = FALSE
    /\ gdiplus = FALSE
    /\ bmp = NoBitmap
    /\ tmp = <<>>
    /\ dst = <<>>
    /\ ok = FALSE
    /\ savedPath = <<>>
    /\ err = ""
    /\ exitCode = -1
    /\ trace = <<>>

\* PathFileExistsW
PathFileExists(p) == p \in DOMAIN fs

\* wWinMain, lines 310-323: the argument checks
CheckArguments ==
    /\ pc = "wWinMain"
    /\ \/ /\ argc < 2
          /\ trace' = Append(trace, Ev("MsgBox usage"))
          /\ exitCode' = 1
          /\ pc' = "exit"
       \/ /\ argc >= 2
          /\ ~PathFileExists(path)
          /\ trace' = Append(trace, Ev("MsgBox not found"))
          /\ exitCode' = 2
          /\ pc' = "exit"
       \/ /\ argc >= 2
          /\ PathFileExists(path)
          /\ pc' = "PromptForText"
          /\ UNCHANGED <<trace, exitCode>>
    /\ UNCHANGED <<lastSaved, argc, path, fs, fsAtStart, runs, st, label, overwrite,
                   gdiplus, bmp, tmp, dst, ok, savedPath, err>>

\* PromptForText, line 179: the prompt window cannot be created
PromptWindowFails ==
    /\ pc = "PromptForText"
    /\ trace' = Append(trace, Ev("CreateWindowExW failed"))
    /\ pc' = "prompt returns"
    /\ UNCHANGED <<lastSaved, argc, path, fs, fsAtStart, runs, st, label, overwrite,
                   gdiplus, bmp, tmp, dst, ok, savedPath, err, exitCode>>

\* InputWndProc, WM_COMMAND IDOK: the OK button with the edit box holding text
PromptOk ==
    /\ pc = "PromptForText"
    /\ \E text \in EditTexts :
         /\ LET buf == GetWindowTextW(text, BufSize)
             IN  st' = [text |-> text, result |-> Trim(buf),
                        accepted |-> Accepted(Trim(buf))]
         /\ trace' = Append(trace, Ev("prompt IDOK"))
    /\ pc' = "prompt returns"
    /\ UNCHANGED <<lastSaved, argc, path, fs, fsAtStart, runs, label, overwrite,
                   gdiplus, bmp, tmp, dst, ok, savedPath, err, exitCode>>

\* InputWndProc, WM_COMMAND IDCANCEL: the Cancel button
PromptCancel ==
    /\ pc = "PromptForText"
    /\ st' = [st EXCEPT !.accepted = FALSE]
    /\ trace' = Append(trace, Ev("prompt IDCANCEL"))
    /\ pc' = "prompt returns"
    /\ UNCHANGED <<lastSaved, argc, path, fs, fsAtStart, runs, label, overwrite,
                   gdiplus, bmp, tmp, dst, ok, savedPath, err, exitCode>>

\* InputWndProc, WM_CLOSE: the window is closed
PromptClose ==
    /\ pc = "PromptForText"
    /\ st' = [st EXCEPT !.accepted = FALSE]
    /\ trace' = Append(trace, Ev("prompt WM_CLOSE"))
    /\ pc' = "prompt returns"
    /\ UNCHANGED <<lastSaved, argc, path, fs, fsAtStart, runs, label, overwrite,
                   gdiplus, bmp, tmp, dst, ok, savedPath, err, exitCode>>

\* PromptForText, lines 199-200, and wWinMain, lines 326-329
PromptReturns ==
    /\ pc = "prompt returns"
    /\ IF st.accepted
       THEN /\ label' = st.result
            /\ pc' = "chooser"
            /\ UNCHANGED exitCode
       ELSE /\ exitCode' = 0
            /\ pc' = "exit"
            /\ UNCHANGED label
    /\ UNCHANGED <<lastSaved, argc, path, fs, fsAtStart, runs, st, overwrite,
                   gdiplus, bmp, tmp, dst, ok, savedPath, err, trace>>

\* wWinMain, lines 332-341: Yes = overwrite, No = copy, Cancel = abort
Chooser ==
    /\ pc = "chooser"
    /\ \E choice \in {"IDYES", "IDNO", "IDCANCEL"} :
         /\ trace' = Append(trace, Ev(choice))
         /\ IF choice = "IDCANCEL"
            THEN /\ exitCode' = 0
                 /\ pc' = "exit"
                 /\ UNCHANGED overwrite
            ELSE /\ overwrite' = (choice = "IDYES")
                 /\ pc' = "GdiplusStartup"
                 /\ UNCHANGED exitCode
    /\ UNCHANGED <<lastSaved, argc, path, fs, fsAtStart, runs, st, label,
                   gdiplus, bmp, tmp, dst, ok, savedPath, err>>

\* ProcessAndSave, lines 210-215
GdiplusStartup ==
    /\ pc = "GdiplusStartup"
    /\ \/ /\ gdiplus' = TRUE
          /\ trace' = Append(trace, Ev("GdiplusStartup"))
          /\ pc' = "FromFile"
          /\ UNCHANGED err
       \/ /\ err' = "GDI+ startup failed."
          /\ trace' = Append(trace, Ev("GdiplusStartup failed"))
          /\ pc' = "returned"
          /\ UNCHANGED gdiplus
    /\ UNCHANGED <<lastSaved, argc, path, fs, fsAtStart, runs, st, label, overwrite,
                   bmp, tmp, dst, ok, savedPath, exitCode>>

\* ProcessAndSave, lines 217-224: Bitmap::FromFile
LoadBitmap ==
    /\ pc = "FromFile"
    /\ \/ /\ PathFileExists(path) /\ Decodable(fs[path])
          /\ bmp' = fs[path]
          /\ trace' = Append(trace, Ev("FromFile"))
          /\ pc' = "draw"
          /\ UNCHANGED <<gdiplus, err>>
       \/ /\ err' = "Failed to load image. Is it a valid PNG?"
          /\ bmp' = NoBitmap
          /\ gdiplus' = FALSE
          /\ trace' = trace \o <<Ev("FromFile failed"), Ev("delete bmp"),
                                 Ev("GdiplusShutdown")>>
          /\ pc' = "returned"
    /\ UNCHANGED <<lastSaved, argc, path, fs, fsAtStart, runs, st, label, overwrite,
                   tmp, dst, ok, savedPath, exitCode>>

\* ProcessAndSave, lines 226-264: the scrim and the label are drawn
Composite ==
    /\ pc = "draw"
    /\ bmp' = DrawLabel(bmp, label)
    /\ trace' = Append(trace, Ev("draw"))
    /\ pc' = "GetEncoderClsid"
    /\ UNCHANGED <<lastSaved, argc, path, fs, fsAtStart, runs, st, label, overwrite,
                   gdiplus, tmp, dst, ok, savedPath, err, exitCode>>

\* exit codes of a process ended by an exception: 0xC0000005 (access
\* violation) and 0xC0000409 (the CRT's invalid-parameter fast fail)
kAccessViolation == -1073741819
kInvalidParameterExit == -1073740791

\* the locals of lines 227-259 that are alive at a return after line 259,
\* in the order their destructors run: shadow, white, scrim, sf, font, g
Destructors ==
    <<Ev("~SolidBrush"), Ev("~SolidBrush"), Ev("~SolidBrush"),
      Ev("~StringFormat"), Ev("~Font"), Ev("~Graphics")>>

\* The return statements after line 259 destroy these six GDI+ objects
\* after GdiplusShutdown, and the Graphics after its bitmap was deleted.
\* GDI+ does not define what that does: the destructors run through, or
\* one of them faults and the process ends there.
DestroyLocals(faults) ==
    IF faults THEN <<Ev("access violation")>> ELSE Destructors

\* A slip of EncoderMissingReturn: the early return forgets the bitmap and
\* the runtime.
EncoderMissingReturn_Leaks(held, ow, faults) ==
    [pc |-> "returned", bmp |-> held, gdiplus |-> TRUE,
     exits |-> FALSE, events |-> <<Ev("GetEncoderClsid failed")>>]

\* A slip of EncoderMissingReturn: the "return false" is missing and the
\* save step runs all the same.
EncoderMissingReturn_FallsThrough(held, ow, faults) ==
    [pc |-> IF ow THEN "save tmp" ELSE "save dst", bmp |-> held,
     gdiplus |-> TRUE, exits |-> FALSE,
     events |-> <<Ev("GetEncoderClsid failed")>>]

\* ProcessAndSave, lines 269-271: delete bmp; GdiplusShutdown(token);
\* return false, which destroys the locals
EncoderMissingReturn(held, ow, faults) ==
    [pc |-> IF faults THEN "exit" ELSE "returned",
     bmp |-> NoBitmap, gdiplus |-> FALSE, exits |-> faults,
     events |-> <<Ev("GetEncoderClsid failed"), Ev("delete bmp"),
                  Ev("GdiplusShutdown")>> \o DestroyLocals(faults)]

\* ProcessAndSave, lines 266-272, and the branch of line 274
FindEncoder ==
    /\ pc = "GetEncoderClsid"
    /\ \/ /\ pc' = IF overwrite THEN "save tmp" ELSE "save dst"
          /\ UNCHANGED <<bmp, gdiplus, err, trace, exitCode>>
       \/ /\ err' = "PNG encoder not found (GDI+)."
          /\ \E faults \in BOOLEAN :
               LET r == EncoderMissingReturn(bmp, overwrite, faults)
               IN  /\ bmp' = r.bmp
                   /\ gdiplus' = r.gdiplus
                   /\ trace' = trace \o r.events
                   /\ pc' = r.pc
                   /\ exitCode' = IF r.exits THEN kAccessViolation ELSE exitCode
    /\ UNCHANGED <<lastSaved, argc, path, fs, fsAtStart, runs, st, label, overwrite,
                   tmp, dst, ok, savedPath>>

\* ProcessAndSave, lines 276-277: the temporary path is chosen and
\* Bitmap::Save opens it, or fails to
SaveTempBegins ==
    /\ pc = "save tmp"
    /\ \E tick \in Ticks :
         LET t == OverwriteTarget(path, tick)
         IN  IF t = InvalidParameter
             THEN /\ trace' = Append(trace, Ev("invalid parameter"))
                  /\ exitCode' = kInvalidParameterExit
                  /\ pc' = "exit"
                  /\ UNCHANGED <<tmp, fs, err>>
             ELSE /\ tmp' = t
                  /\ \/ /\ fs' = WriteFile(fs, t, Torn(bmp))
                        /\ trace' = Append(trace, EvP("Save begins", t))
                        /\ pc' = "saving tmp"
                        /\ UNCHANGED err
                     \/ /\ err' = "Save to temp failed (status)."
                        /\ trace' = Append(trace, EvP("Save failed", t))
                        /\ pc' = "cleanup"
                        /\ UNCHANGED fs
                  /\ UNCHANGED exitCode
    /\ UNCHANGED <<lastSaved, argc, path, fsAtStart, runs, st, label, overwrite,
                   gdiplus, bmp, dst, ok, savedPath>>

\* ProcessAndSave, lines 277-279: Bitmap::Save finishes the temporary file,
\* or gives up part-way
SaveTempEnds ==
    /\ pc = "saving tmp"
    /\ \/ /\ fs' = WriteFile(fs, tmp, bmp)
          /\ trace' = Append(trace, EvP("Save ok", tmp))
          /\ pc' = "MoveFileExW"
          /\ UNCHANGED err
       \/ /\ err' = "Save to temp failed (status)."
          /\ trace' = Append(trace, EvP("Save failed", tmp))
          /\ pc' = "cleanup"
          /\ UNCHANGED fs
    /\ UNCHANGED <<lastSaved, argc, path, fsAtStart, runs, st, label, overwrite,
                   gdiplus, bmp, tmp, dst, ok, savedPath, exitCode>>

\* ProcessAndSave, lines 281-288: the rename over the original, and on its
\* failure the best-effort DeleteFileW
ReplaceOriginal ==
    /\ pc = "MoveFileExW"
    /\ \/ /\ fs' = MoveFile(fs, tmp, path)
          /\ ok' = TRUE
          /\ savedPath' = path
          /\ trace' = Append(trace, EvP("MoveFileExW", path))
          /\ UNCHANGED err
       \/ /\ \E deleted \in BOOLEAN :
               /\ fs' = IF deleted THEN RemoveFile(fs, tmp) ELSE fs
               /\ trace' = trace \o <<EvP("MoveFileExW failed", path),
                     EvP(IF deleted THEN "DeleteFileW" ELSE "DeleteFileW failed", tmp)>>
          /\ err' = "Replace original failed. Win32 error"
          /\ UNCHANGED <<ok, savedPath>>
    /\ pc' = "cleanup"
    /\ UNCHANGED <<lastSaved, argc, path, fsAtStart, runs, st, label, overwrite,
                   gdiplus, bmp, tmp, dst, exitCode>>

\* A slip of SaveCopyError: the failure branch leaves outError as it was.
SaveCopyError_Empty == ""

\* line 298: outError = L"Save copy failed (status " + ... + L")."
SaveCopyError == "Save copy failed (status)."

\* ProcessAndSave, lines 292-293: the copy's path is derived and
\* Bitmap::Save opens it, or fails to
SaveCopyBegins ==
    /\ pc = "save dst"
    /\ LET d == CopyTarget(path)
       IN  /\ dst' = d
           /\ \/ /\ fs' = WriteFile(fs, d, Torn(bmp))
                 /\ trace' = Append(trace, EvP("Save begins", d))
                 /\ pc' = "saving dst"
                 /\ UNCHANGED err
              \/ /\ err' = SaveCopyError
                 /\ trace' = Append(trace, EvP("Save failed", d))
                 /\ pc' = "cleanup"
                 /\ UNCHANGED fs
    /\ UNCHANGED <<lastSaved, argc, path, fsAtStart, runs, st, label, overwrite,
                   gdiplus, bmp, tmp, ok, savedPath, exitCode>>

\* ProcessAndSave, lines 293-299: Bitmap::Save finishes the copy, or gives
\* up part-way
SaveCopyEnds ==
    /\ pc = "saving dst"
    /\ \/ /\ fs' = WriteFile(fs, dst, bmp)
          /\ ok' = TRUE
          /\ savedPath' = dst
          /\ trace' = Append(trace, EvP("Save ok", dst))
          /\ UNCHANGED err
       \/ /\ err' = SaveCopyError
          /\ trace' = Append(trace, EvP("Save failed", dst))
          /\ UNCHANGED <<fs, ok, savedPath>>
    /\ pc' = "cleanup"
    /\ UNCHANGED <<lastSaved, argc, path, fsAtStart, runs, st, label, overwrite,
                   gdiplus, bmp, tmp, dst, exitCode>>

\* ProcessAndSave, lines 302-304: delete bmp; GdiplusShutdown(token);
\* return ok, which destroys the locals
Cleanup ==
    /\ pc = "cleanup"
    /\ bmp' = NoBitmap
    /\ gdiplus' = FALSE
    /\ \E faults \in BOOLEAN :
         /\ trace' = trace \o <<Ev("delete bmp"), Ev("GdiplusShutdown")>>
                           \o DestroyLocals(faults)
         /\ pc' = IF faults THEN "exit" ELSE "returned"
         /\ exitCode' = IF faults THEN kAccessViolation ELSE exitCode
    /\ UNCHANGED <<lastSaved, argc, path, fs, fsAtStart, runs, st, label, overwrite,
                   tmp, dst, ok, savedPath, err>>

\* wWinMain, lines 344-348: the result of ProcessAndSave
ReportFailure ==
    /\ pc = "returned"
    /\ ~ok
    /\ trace' = Append(trace, Ev("MsgBox failed"))
    /\ exitCode' = 3
    /\ pc' = "exit"
    /\ UNCHANGED <<lastSaved, argc, path, fs, fsAtStart, runs, st, label, overwrite,
                   gdiplus, bmp, tmp, dst, ok, savedPath, err>>

\* A slip of NotifyTarget: the shell is told about the file the tool was
\* started on.
NotifyTarget_Original(saved, original) == original

\* line 350: RefreshShellFor(savedPath)
NotifyTarget(saved, original) == saved

\* wWinMain, line 350
RefreshShell ==
    /\ pc = "returned"
    /\ ok
    /\ trace' = Append(trace, EvP("SHChangeNotify", NotifyTarget(savedPath, path)))
    /\ pc' = "MsgBox saved"
    /\ UNCHANGED <<lastSaved, argc, path, fs, fsAtStart, runs, st, label, overwrite,
                   gdiplus, bmp, tmp, dst, ok, savedPath, err, exitCode>>

\* wWinMain, lines 351-352
ReportSuccess ==
    /\ pc = "MsgBox saved"
    /\ trace' = Append(trace, Ev("MsgBox saved"))
    /\ exitCode' = 0
    /\ pc' = "exit"
    /\ UNCHANGED <<lastSaved, argc, path, fs, fsAtStart, runs, st, label, overwrite,
                   gdiplus, bmp, tmp, dst, ok, savedPath, err>>

\* the user opens the same file with the tool again
Relaunch ==
    /\ pc = "exit"
    /\ runs < MaxRuns
    /\ runs' = runs + 1
    /\ fsAtStart' = fs
    /\ lastSaved' = IF ok
                    THEN [overwrite |-> overwrite, label |-> label,
                          path |-> savedPath, source |-> fsAtStart[path],
                          content |-> fs[savedPath]]
                    ELSE lastSaved
    /\ FreshRun
    /\ UNCHANGED <<argc, path, fs>>

Next ==
    \/ (CheckArguments /\ UNCHANGED <<pathTest, geom, tempTest, promptTest, race>>)
    \/ (PromptWindowFails /\ UNCHANGED <<pathTest, geom, tempTest, promptTest, race>>)
    \/ (PromptOk /\ UNCHANGED <<pathTest, geom, tempTest, promptTest, race>>)
    \/ (PromptCancel /\ UNCHANGED <<pathTest, geom, tempTest, promptTest, race>>)
    \/ (PromptClose /\ UNCHANGED <<pathTest, geom, tempTest, promptTest, race>>)
    \/ (PromptReturns /\ UNCHANGED <<pathTest, geom, tempTest, promptTest, race>>)
    \/ (Chooser /\ UNCHANGED <<pathTest, geom, tempTest, promptTest, race>>)
    \/ (GdiplusStartup /\ UNCHANGED <<pathTest, geom, tempTest, promptTest, race>>)
    \/ (LoadBitmap /\ UNCHANGED <<pathTest, geom, tempTest, promptTest, race>>)
    \/ (Composite /\ UNCHANGED <<pathTest, geom, tempTest, promptTest, race>>)
    \/ (FindEncoder /\ UNCHANGED <<pathTest, geom, tempTest, promptTest, race>>)
    \/ (SaveTempBegins /\ UNCHANGED <<pathTest, geom, tempTest, promptTest, race>>)
    \/ (SaveTempEnds /\ UNCHANGED <<pathTest, geom, tempTest, promptTest, race>>)
    \/ (ReplaceOriginal /\ UNCHANGED <<pathTest, geom, tempTest, promptTest, race>>)
    \/ (SaveCopyBegins /\ UNCHANGED <<pathTest, geom, tempTest, promptTest, race>>)
    \/ (SaveCopyEnds /\ UNCHANGED <<pathTest, geom, tempTest, promptTest, race>>)
    \/ (Cleanup /\ UNCHANGED <<pathTest, geom, tempTest, promptTest, race>>)
    \/ (ReportFailure /\ UNCHANGED <<pathTest, geom, tempTest, promptTest, race>>)
    \/ (RefreshShell /\ UNCHANGED <<pathTest, geom, tempTest, promptTest, race>>)
    \/ (ReportSuccess /\ UNCHANGED <<pathTest, geom, tempTest, promptTest, race>>)
    \/ (Relaunch /\ UNCHANGED <<pathTest, geom, tempTest, promptTest, race>>)

Spec == Init /\ [][Next]_vars

----------------------------------------------------------------------------
(* Claims about a run of the program *)

\* the chooser was answered Yes (Overwrite) or No (Copy) in this run
OverwriteMode == "IDYES" \in Ops(trace)
CopyMode == "IDNO" \in Ops(trace)

\* the process ended inside ProcessAndSave: a destructor faulted after
\* GdiplusShutdown, or the temporary path did not fit its buffer
Crashed ==
    \/ "access violation" \in Ops(trace)
    \/ "invalid parameter" \in Ops(trace)

\* ProcessAndSave was called and has returned
Returned ==
    /\ OverwriteMode \/ CopyMode
    /\ pc \in {"returned", "MsgBox saved", "exit"}
    /\ ~Crashed

\* the image ProcessAndSave is to produce in this run
Labelled == DrawLabel(fsAtStart[path], label)

AllWhitespace(text) == \A i \in 1..Len(text) : text[i] \in Whitespace

\* the user cancelled: Cancel or window close at the text prompt, OK with an
\* empty or whitespace-only text, or Cancel at the chooser
UserCancelled ==
    \/ "prompt IDCANCEL" \in Ops(trace)
    \/ "prompt WM_CLOSE" \in Ops(trace)
    \/ ("prompt IDOK" \in Ops(trace) /\ AllWhitespace(st.text))
    \/ "IDCANCEL" \in Ops(trace)

\* C1: in Overwrite mode the source file never holds a partially written
\* image; when ProcessAndSave returns success the saved path is the source
\* path and the source holds the complete labelled image, and when it
\* returns failure the source holds what it held before the run.
C1_OverwriteAtomic ==
    OverwriteMode =>
        /\ path \in DOMAIN fs
        /\ fs[path].complete
        /\ fs[path] \in {fsAtStart[path], Labelled}
        /\ Returned =>
             IF ok THEN savedPath = path /\ fs[path] = Labelled
                   ELSE fs[path] = fsAtStart[path]

\* C1 witness: an Overwrite run has ended with the labelled image in place
\* of the original.
C1_Witness ==
    /\ OverwriteMode
    /\ pc = "exit"
    /\ ok
    /\ fs[path] = Labelled
    /\ fs[path] # fsAtStart[path]

\* this run's Bitmap::Save opened the temporary file
TempCreated ==
    \E i \in 1..Len(trace) : trace[i] = EvP("Save begins", tmp)

EncodeFailed == "Save failed" \in Ops(trace)
RenameFailed == "MoveFileExW failed" \in Ops(trace)

\* the parts of C2 that do not speak of a temporary file that remains
C2_Gone ==
    /\ (OverwriteMode /\ Returned /\ ok) => tmp \notin DOMAIN fs
    /\ (OverwriteMode /\ Returned /\ RenameFailed /\ "DeleteFileW" \in Ops(trace))
            => tmp \notin DOMAIN fs
    /\ ("FromFile failed" \in Ops(trace) \/ "GetEncoderClsid failed" \in Ops(trace))
            => (fs = fsAtStart /\ tmp = <<>> /\ "Save begins" \notin Ops(trace))

\* C2 as stated: after an Overwrite run the temporary file is gone on
\* success and after a failed rename with a successful delete; it can remain
\* only when the encode step failed; none is created when load or encoder
\* lookup fails.
C2_Original ==
    /\ C2_Gone
    /\ (OverwriteMode /\ Returned /\ TempCreated /\ tmp \in DOMAIN fs)
            => EncodeFailed

\* C2 amended: as C2, but a temporary file of the run can remain when the
\* encode step failed or when the rename failed and the best-effort delete
\* failed as well.
C2_TempFileFate ==
    /\ C2_Gone
    /\ (OverwriteMode /\ Returned /\ TempCreated /\ tmp \in DOMAIN fs)
            => (EncodeFailed \/
                (RenameFailed /\ "DeleteFileW failed" \in Ops(trace)))

\* C2 witness: the rename failed, the delete failed too, and the complete
\* temporary file is still there when the run ends.
C2_Witness ==
    /\ OverwriteMode
    /\ pc = "exit"
    /\ RenameFailed
    /\ ~EncodeFailed
    /\ TempCreated
    /\ tmp \in DOMAIN fs
    /\ fs[tmp] = Labelled

\* C3: once the user has cancelled, the run ends with exit code 0 and has
\* not started GDI+, loaded the image, written, renamed or deleted a file,
\* notified the shell or shown any dialog after the cancelled one.
C3_CancelIsClean ==
    UserCancelled =>
        /\ trace \in {<<Ev("prompt IDCANCEL")>>, <<Ev("prompt WM_CLOSE")>>,
                      <<Ev("prompt IDOK")>>,
                      <<Ev("prompt IDOK"), Ev("IDCANCEL")>>}
        /\ fs = fsAtStart
        /\ ~gdiplus
        /\ bmp = NoBitmap
        /\ pc \in {"prompt returns", "exit"}
        /\ (pc = "exit" => exitCode = 0)

\* C3 witness: OK was pressed on a text of blanks only and the run is over.
C3_Witness ==
    /\ pc = "exit"
    /\ trace = <<Ev("prompt IDOK")>>
    /\ st.text = <<" ">>
    /\ exitCode = 0

\* the steps a run may take at most once
Steps == {"GdiplusStartup", "FromFile", "draw", "Save begins", "Save ok",
          "Save failed", "MoveFileExW", "MoveFileExW failed"}

\* C4: the exit code is 1 exactly when no path was given, 2 exactly when
\* the path does not exist, 3 exactly when ProcessAndSave failed, and 0
\* exactly when the image was saved or the user cancelled; an exit with 3
\* follows exactly one error dialog and no step is retried.
C4_ExitCodes ==
    pc = "exit" =>
        /\ (exitCode = 1) <=> (argc < 2)
        /\ (exitCode = 2) <=> (argc >= 2 /\ path \notin DOMAIN fsAtStart)
        /\ (exitCode = 3) <=> ((OverwriteMode \/ CopyMode) /\ ~ok)
        /\ (exitCode = 0) <=> (((OverwriteMode \/ CopyMode) /\ ok) \/ UserCancelled)
        /\ (exitCode = 3) =>
              /\ Count(trace, "MsgBox failed") = 1
              /\ Count(trace, "MsgBox saved") = 0
              /\ \A s \in Steps : Count(trace, s) <= 1

\* the path the specification gives the copy
LabeledSibling == RefInsertBeforeExt(path, kLabeled)

\* C7: the copy's path differs from the source path, and in Copy mode the
\* source file holds what it held before the run, whatever the run did.
C7_CopyLeavesSource ==
    /\ (argc >= 2 => CopyTarget(path) # path)
    /\ CopyMode =>
         /\ path \in DOMAIN fs
         /\ fs[path] = fsAtStart[path]
         /\ (pc \in {"saving dst", "cleanup"} \/ Returned) =>
               (dst = <<>> \/ dst # path)

\* C7 witness: a Copy run on a path without extension has written the copy
\* next to the untouched original.
C7_Witness ==
    /\ CopyMode
    /\ pc = "exit"
    /\ ok
    /\ path = <<"a">>
    /\ savedPath = <<"a">> \o kLabeled
    /\ fs[savedPath] = Labelled
    /\ fs[path] = fsAtStart[path]

\* C8 as stated: in Copy mode a file that exists at the destination before
\* the run is not modified by the run (no file that existed before the run
\* was created by the run).
C8_Original ==
    (CopyMode /\ LabeledSibling \in DOMAIN fsAtStart) =>
        /\ LabeledSibling \in DOMAIN fs
        /\ fs[LabeledSibling] = fsAtStart[LabeledSibling]

\* C8 amended: in Copy mode a file that exists at the destination before
\* the run is overwritten without asking once Bitmap::Save has opened it: it
\* holds an incomplete image while the save runs and after a save that
\* failed part-way, and the run's output after the save succeeded.  It holds
\* what it held before the run as long as Bitmap::Save has not opened it,
\* so in every run that fails at the runtime startup, the load, the encoder
\* lookup or the opening of the file.  No other file that existed before
\* the run is modified.
C8_CopyTouchesOnlyDst ==
    CopyMode =>
        LET ops == Ops(trace)
        IN  /\ \A p \in DOMAIN fsAtStart \ {LabeledSibling} :
                  p \in DOMAIN fs /\ fs[p] = fsAtStart[p]
            /\ LabeledSibling \in DOMAIN fsAtStart =>
                  /\ LabeledSibling \in DOMAIN fs
                  /\ fs[LabeledSibling] =
                        IF "Save ok" \in ops THEN Labelled
                        ELSE IF "Save begins" \in ops THEN Torn(Labelled)
                        ELSE fsAtStart[LabeledSibling]
            /\ (Returned /\ ok) => fs[LabeledSibling] = Labelled

\* C8 witness: a Copy run has replaced a "_labeled" file that was there
\* before the run, while a temporary file left by an earlier run and the
\* original are as they were.
C8_Witness ==
    /\ CopyMode
    /\ pc = "exit"
    /\ LabeledSibling \in DOMAIN fsAtStart
    /\ fsAtStart[LabeledSibling] = Image("B")
    /\ fs[LabeledSibling] = Labelled
    /\ \E p \in DOMAIN fsAtStart \ {path, LabeledSibling} : fs[p] = fsAtStart[p]

\* the positions at which Bitmap::Save and MoveFileExW run
SavePositions == {"save tmp", "saving tmp", "MoveFileExW", "save dst", "saving dst"}

\* C12: once GdiplusStartup has succeeded, the runtime is shut down exactly
\* once and the bitmap released exactly once before ProcessAndSave returns,
\* on success and on every failure; both are still held while the encode
\* and rename steps run.
C12_ReleasedOnce ==
    LET shutdowns == Count(trace, "GdiplusShutdown")
        releases == Count(trace, "delete bmp")
        ops == Ops(trace)
        over == Returned \/ "access violation" \in ops
    IN  /\ shutdowns <= 1
        /\ releases <= 1
        /\ (over /\ "GdiplusStartup" \in ops) =>
              /\ shutdowns = 1
              /\ releases = 1
              /\ ~gdiplus
              /\ bmp = NoBitmap
        /\ (over /\ "GdiplusStartup" \notin ops) =>
              /\ shutdowns = 0
              /\ ~gdiplus
        /\ pc \in SavePositions =>
              /\ gdiplus
              /\ bmp = Labelled
              /\ shutdowns = 0
              /\ releases = 0

\* C12 witness: the PNG encoder was not found, and the run has ended with
\* the bitmap released and the runtime shut down, once each.
C12_Witness ==
    /\ pc = "exit"
    /\ "GetEncoderClsid failed" \in Ops(trace)
    /\ "FromFile" \in Ops(trace)
    /\ Count(trace, "GdiplusShutdown") = 1
    /\ Count(trace, "delete bmp") = 1
    /\ ~gdiplus

\* the latest successful earlier run was a Copy run with the label of this
\* run, and the source holds now what it held when that run started
SameCopyAgain ==
    /\ lastSaved # NoSave
    /\ ~lastSaved.overwrite
    /\ lastSaved.label = label
    /\ lastSaved.path = LabeledSibling
    /\ lastSaved.source = fsAtStart[path]

\* C15: a successful Copy run that repeats the previous successful Copy run
\* (same source content, same label) leaves the destination with the content
\* the previous run left there.
C15_CopyTwiceSameContent ==
    (CopyMode /\ Returned /\ ok /\ SameCopyAgain) =>
        /\ savedPath = lastSaved.path
        /\ fs[savedPath] = lastSaved.content
        /\ fs[savedPath] = Labelled

\* the second run has copied again, over the copy the first run made
C15_Witness ==
    /\ runs = 2
    /\ pc = "exit"
    /\ CopyMode /\ ok
    /\ SameCopyAgain
    /\ fsAtStart[LabeledSibling] = lastSaved.content
    /\ fs[LabeledSibling] = DrawLabel(Image("A"), <<"x">>)

\* the steps of a run, in the order C16 gives them
OverwriteOrder ==
    <<"FromFile", "draw", "Save begins", "Save ok", "MoveFileExW",
      "SHChangeNotify", "MsgBox saved">>
CopyOrder ==
    <<"FromFile", "draw", "Save begins", "Save ok", "SHChangeNotify",
      "MsgBox saved">>

Prefixes(q) == {SubSeq(q, 1, k) : k \in 0..Len(q)}

IsStep(e) == \E k \in 1..Len(OverwriteOrder) : OverwriteOrder[k] = e.op

\* C16: within a run the steps happen in the order decode, composite,
\* encode, rename (Overwrite only), shell notification, success dialog,
\* each at most once and none without the ones before it; the notification
\* is issued only after ProcessAndSave returned success, for the saved
\* path, and never on a failed or cancelled run.
C16_StepOrder ==
    LET steps == SelectSeq(trace, IsStep)
        taken == [i \in 1..Len(steps) |-> steps[i].op]
        notified == \E i \in 1..Len(steps) : steps[i].op = "SHChangeNotify"
    IN  /\ taken \in Prefixes(IF OverwriteMode THEN OverwriteOrder ELSE CopyOrder)
        /\ notified =>
              /\ Returned /\ ok
              /\ savedPath = IF OverwriteMode THEN path ELSE LabeledSibling
              /\ \A i \in 1..Len(steps) :
                    steps[i].op = "SHChangeNotify" => steps[i].path = savedPath
              /\ ~UserCancelled
              /\ "MsgBox failed" \notin Ops(trace)
        /\ (pc = "exit" /\ ok /\ Returned) => notified
        /\ ~ok => ~notified

\* a Copy run went through all its steps and told the shell about the copy
C16_Witness ==
    /\ pc = "exit"
    /\ ok
    /\ CopyMode
    /\ LabeledSibling # path
    /\ trace[Len(trace) - 1] = EvP("SHChangeNotify", LabeledSibling)
    /\ trace[Len(trace)] = Ev("MsgBox saved")

\* ProcessAndSave failed before its save step: at GDI+ startup, at loading
\* the image, or at the encoder lookup
FailedBeforeSave ==
    \/ "GdiplusStartup failed" \in Ops(trace)
    \/ "FromFile failed" \in Ops(trace)
    \/ "GetEncoderClsid failed" \in Ops(trace)

FileEvents ==
    {"Save begins", "Save ok", "Save failed", "MoveFileExW",
     "MoveFileExW failed", "DeleteFileW", "DeleteFileW failed"}

\* C18: when ProcessAndSave fails before the save step, no file has been
\* created, changed or removed, in either mode, and the run reports failure.
C18_EarlyFailureTouchesNothing ==
    FailedBeforeSave =>
        /\ fs = fsAtStart
        /\ Ops(trace) \cap FileEvents = {}
        /\ tmp = <<>> /\ dst = <<>>
        /\ ~ok
        /\ pc \in {"returned", "exit"}

\* the encoder was missing in a Copy run next to an older copy, which is
\* still what it was
C18_Witness ==
    /\ pc = "exit"
    /\ CopyMode
    /\ "GetEncoderClsid failed" \in Ops(trace)
    /\ LabeledSibling \in DOMAIN fs
    /\ fs[LabeledSibling] = Image("B")
    /\ fs[path] = Image("A")

\* the write of this run was committed: the rename onto the source in
\* Overwrite mode, the completed save of the copy in Copy mode
Committed ==
    LET ops == Ops(trace)
    IN  IF "IDYES" \in ops THEN "MoveFileExW" \in ops ELSE "Save ok" \in ops

\* C20: ProcessAndSave returns true exactly when the write was committed,
\* the saved path is assigned exactly then, and every false return comes
\* with a non-empty error text.
C20_ReturnContract ==
    /\ ok <=> Committed
    /\ ok => (OverwriteMode \/ CopyMode)
    /\ (savedPath # <<>>) <=> ok
    /\ ok =>
          /\ savedPath = IF OverwriteMode THEN path ELSE LabeledSibling
          /\ \E i \in 1..Len(trace) :
                trace[i] = EvP(IF OverwriteMode THEN "MoveFileExW" ELSE "Save ok",
                               savedPath)
          /\ fs[savedPath] = Labelled
    /\ (~ok /\ Returned) => err # ""

\* a Copy run whose save gave up part-way: false, no saved path, an error
C20_Witness ==
    /\ pc = "exit"
    /\ CopyMode
    /\ ~ok
    /\ savedPath = <<>>
    /\ "Save begins" \in Ops(trace)
    /\ "Save failed" \in Ops(trace)
    /\ LabeledSibling \in DOMAIN fs
    /\ ~fs[LabeledSibling].complete
    /\ err = "Save copy failed (status)."

----------------------------------------------------------------------------
(* Specification SpecGeom: the label geometry on bounded image sizes *)

TextHeights == {k * TextStep : k \in 0..MaxTextSteps}

\* the bitmap has been loaded: w = bmp->GetWidth(), h = bmp->GetHeight()
InitGeom ==
    /\ MainIdle
    /\ pathTest = NoPathTest
    /\ tempTest = NoTempTest
    /\ promptTest = NoPromptTest
    /\ race = NoRace
    /\ \E w \in 1..MaxW : \E h \in 1..MaxH :
         geom = [NoGeom EXCEPT !.w = w, !.h = h, !.pad = Pad(h),
                               !.fontPt = FontPt(h), !.step = "loaded"]

\* g.MeasureString(..., &bounds): the font engine reports a text height
MeasureString ==
    /\ geom.step = "loaded"
    /\ \E t \in TextHeights :
         geom' = [geom EXCEPT !.textH = t, !.step = "measured"]
    /\ UNCHANGED <<pathTest, tempTest, promptTest, race, mainVars>>

\* the scrim height and the two rectangles
LayoutLabel ==
    /\ geom.step = "measured"
    /\ LET sh == ScrimHeight(geom.h, geom.textH)
       IN  geom' = [geom EXCEPT
                !.scrimH = sh,
                !.scrimRect = ScrimRect(geom.w, geom.h, sh),
                !.textRect = TextRect(geom.w, geom.h, geom.pad, sh),
                !.step = "drawn"]
    /\ UNCHANGED <<pathTest, tempTest, promptTest, race, mainVars>>

NextGeom == MeasureString \/ LayoutLabel

SpecGeom == InitGeom /\ [][NextGeom]_vars

ScrimFloor(h) == Max(ScrimMin, ScrimMinPerH * h)
ScrimCeiling(h) == ScrimMaxPerH * h

\* C5 as stated: for every image height and measured text height,
\* max(18, 0.05*H) <= Hscrim <= 0.15*H.
C5_Original ==
    geom.step = "drawn" =>
        /\ ScrimFloor(geom.h) <= geom.scrimH
        /\ geom.scrimH <= ScrimCeiling(geom.h)

\* C5 amended: Hscrim <= 0.15*H for every image height, and
\* Hscrim >= max(18, 0.05*H) for every image height H >= 120.
C5_ScrimBounds ==
    geom.step = "drawn" =>
        /\ geom.scrimH <= ScrimCeiling(geom.h)
        /\ (geom.h >= 120 => ScrimFloor(geom.h) <= geom.scrimH)

\* C5 witness: a scrim strictly between its floor and its ceiling, its
\* height given by the measured text.
C5_Witness ==
    /\ geom.step = "drawn"
    /\ geom.h >= 120
    /\ ScrimFloor(geom.h) < geom.scrimH
    /\ geom.scrimH < ScrimCeiling(geom.h)
    /\ geom.scrimH = geom.textH + 2 * geom.pad

\* C6: the scrim rectangle (0, H - Hscrim, W, Hscrim) lies inside the
\* image and its bottom edge is the image's bottom edge.
C6_ScrimInsideImage ==
    geom.step = "drawn" =>
        /\ geom.scrimRect[1] = 0
        /\ geom.scrimRect[2] >= 0
        /\ geom.scrimRect[3] = 1000 * geom.w
        /\ geom.scrimRect[4] >= 0
        /\ geom.scrimRect[2] + geom.scrimRect[4] = 1000 * geom.h

\* C6 witness: a one-pixel-high image, where text and padding ask for more
\* than the image height.
C6_Witness ==
    /\ geom.step = "drawn"
    /\ geom.h = 1
    /\ geom.textH + 2 * geom.pad > 1000 * geom.h
    /\ geom.scrimRect = <<0, 850, 1000 * geom.w, 150>>

\* min(max(Htext + 2*pad, max(18, 0.05*H)), 0.15*H), in thousandths
ClampedScrim(h, textH, pad) ==
    LET wanted == textH + 2 * pad
        floor == IF 50 * h > 18000 THEN 50 * h ELSE 18000
        inner == IF wanted > floor THEN wanted ELSE floor
    IN  IF inner < 150 * h THEN inner ELSE 150 * h

\* C17: the scrim height is min(max(Htext + 2*pad, max(18, 0.05*H)),
\* 0.15*H); for every image height below 120, where the floor exceeds the
\* ceiling, it equals 0.15*H whatever the measured text height.
C17_CeilingWins ==
    geom.step = "drawn" =>
        /\ geom.scrimH = ClampedScrim(geom.h, geom.textH, geom.pad)
        /\ (ScrimFloor(geom.h) > ScrimCeiling(geom.h)) <=> geom.h < 120
        /\ geom.h < 120 => geom.scrimH = 150 * geom.h

\* C17 witness: a 100 pixel high image, floor 18 above ceiling 15, with a
\* measured text that alone would fit under the ceiling
C17_Witness ==
    /\ geom.step = "drawn"
    /\ geom.h = 100
    /\ geom.textH = 0
    /\ ScrimFloor(geom.h) = 18000
    /\ geom.scrimH = 15000

\* rectangle r has no negative extent
NonNegative(r) == r[3] >= 0 /\ r[4] >= 0

\* the point (x, y) lies in rectangle s, borders included
PointInside(x, y, s) ==
    /\ s[1] <= x /\ x <= s[1] + s[3]
    /\ s[2] <= y /\ y <= s[2] + s[4]

\* rectangle r lies inside rectangle s: both of its corners do
Inside(r, s) ==
    /\ PointInside(r[1], r[2], s)
    /\ PointInside(r[1] + r[3], r[2] + r[4], s)

\* C19 as stated: for every image size W >= 1, H >= 1 and every measured
\* text height the text rectangle has non-negative width and height and
\* lies inside the scrim rectangle.
C19_Original ==
    geom.step = "drawn" =>
        /\ NonNegative(geom.textRect)
        /\ Inside(geom.textRect, geom.scrimRect)

\* C19 amended: the text rectangle's width is non-negative exactly when
\* W >= 2*pad and its height exactly when 0.15*H >= 2*pad; it has
\* non-negative width and height and lies inside the scrim rectangle
\* exactly when both hold.  Its top-left corner, and likewise its opposite
\* corner, lies inside the scrim rectangle exactly when W >= pad and
\* 0.15*H >= pad.
C19_TextInsideScrim ==
    geom.step = "drawn" =>
        LET wideEnough == 1000 * geom.w >= 2 * geom.pad
            highEnough == 150 * geom.h >= 2 * geom.pad
        IN  /\ geom.textRect[3] >= 0 <=> wideEnough
            /\ geom.textRect[4] >= 0 <=> highEnough
            /\ (NonNegative(geom.textRect)
                   /\ Inside(geom.textRect, geom.scrimRect))
                 <=> (wideEnough /\ highEnough)
            /\ Inside(geom.textRect, geom.scrimRect)
                 <=> (1000 * geom.w >= geom.pad /\ 150 * geom.h >= geom.pad)
            /\ PointInside(geom.textRect[1], geom.textRect[2], geom.scrimRect)
                 <=> (1000 * geom.w >= geom.pad /\ 150 * geom.h >= geom.pad)

\* C19 witness: the smallest image on which the text rectangle is not
\* negative, 16 x 107 pixels
C19_Witness ==
    /\ geom.step = "drawn"
    /\ geom.w = 16
    /\ geom.h = 107
    /\ geom.scrimRect = <<0, 90950, 16000, 16050>>
    /\ geom.textRect = <<8000, 98950, 0, 50>>

----------------------------------------------------------------------------
(* Specification SpecTemp: successive GetTempSiblingPath calls of one      *)
(* process, with the tick count advancing between them or not.  The        *)
(* 32-bit wrap of GetTickCount is outside the clock's range here.          *)

\* a file name below MAX_PATH whose temporary sibling does not fit
LongPath == [i \in 1..(MAX_PATH - 10) |-> "a"]

InitTemp ==
    /\ MainIdle
    /\ pathTest = NoPathTest
    /\ geom = NoGeom
    /\ promptTest = NoPromptTest
    /\ race = NoRace
    /\ \E original \in BoundedSeq(PathChars, MaxPathLen) \cup {LongPath} :
         tempTest = [original |-> original, now |-> TickBase, results |-> <<>>]

\* a millisecond tick of GetTickCount passes
ClockTicks ==
    /\ tempTest.now < TickBase + MaxElapsed
    /\ tempTest' = [tempTest EXCEPT !.now = @ + 1]
    /\ UNCHANGED <<pathTest, geom, promptTest, race, mainVars>>

\* GetTempSiblingPath(original) is called and reads GetTickCount()
CallGetTempSiblingPath ==
    /\ Len(tempTest.results) < MaxCalls
    /\ \A i \in 1..Len(tempTest.results) : tempTest.results[i] # InvalidParameter
    /\ tempTest' = [tempTest EXCEPT
            !.results = Append(@, GetTempSiblingPath(tempTest.original, tempTest.now))]
    /\ UNCHANGED <<pathTest, geom, promptTest, race, mainVars>>

NextTemp == ClockTicks \/ CallGetTempSiblingPath

SpecTemp == InitTemp /\ [][NextTemp]_vars

\* C11: any two successive calls of GetTempSiblingPath for the same source
\* path within one process return different paths.
C11_SuccessiveDiffer ==
    \A i \in 1..(Len(tempTest.results) - 1) :
        tempTest.results[i] # tempTest.results[i + 1]

----------------------------------------------------------------------------
(* Specification SpecRace: two instances of the tool, both past the        *)
(* chooser in Overwrite mode on the same file, their ProcessAndSave steps   *)
(* interleaved.  A file one instance is still writing cannot be opened for  *)
(* writing, renamed or deleted by the other (sharing violation).  An        *)
(* instance is "done" when it has finished its file operations, whether    *)
(* ProcessAndSave then returns or the process ends in it.                  *)

Instances == {1, 2}
Other(i) == 3 - i

RaceTicks == {TickBase + k : k \in 0..MaxElapsed}
RaceLabels == {<<"x">>, <<"x", "x">>}

InitRace ==
    /\ MainIdle
    /\ pathTest = NoPathTest
    /\ geom = NoGeom
    /\ tempTest = NoTempTest
    /\ promptTest = NoPromptTest
    /\ \E src \in BoundedSeq(PathChars, MaxArgLen) \ {<<>>} :
       \E l2 \in RaceLabels :
         race = [step |-> "run",
                 src |-> src,
                 files |-> WriteFile(<<>>, src, Image("A")),
                 renamed |-> <<>>,
                 inst |-> [i \in Instances |->
                            [pc |-> "FromFile",
                             label |-> IF i = 1 THEN <<"x">> ELSE l2,
                             bmp |-> NoBitmap,
                             tmp |-> <<>>,
                             created |-> FALSE,
                             ok |-> FALSE]]]

\* the file p is open for writing by the instance other than i
BeingWrittenByOther(i, p) ==
    /\ race.inst[Other(i)].pc = "saving tmp"
    /\ race.inst[Other(i)].tmp = p

\* ProcessAndSave, lines 210-272: startup, load, drawing and encoder lookup
\* of instance i; a failure returns before any file is written
RaceLoad(i) ==
    /\ race.step = "run"
    /\ race.inst[i].pc = "FromFile"
    /\ \/ /\ Decodable(race.files[race.src])
          /\ race' = [race EXCEPT
                !.inst[i].bmp = DrawLabel(race.files[race.src], race.inst[i].label),
                !.inst[i].pc = "save tmp"]
       \/ race' = [race EXCEPT !.inst[i].pc = "done"]
    /\ UNCHANGED <<pathTest, geom, tempTest, promptTest, mainVars>>

\* ProcessAndSave, lines 276-277, of instance i
RaceSaveBegins(i) ==
    /\ race.step = "run"
    /\ race.inst[i].pc = "save tmp"
    /\ \E tick \in RaceTicks :
         LET t == OverwriteTarget(race.src, tick)
         IN  IF t = InvalidParameter
             THEN race' = [race EXCEPT !.inst[i].pc = "done"]
             ELSE \/ /\ ~BeingWrittenByOther(i, t)
                     /\ race' = [race EXCEPT
                           !.files = WriteFile(@, t, Torn(race.inst[i].bmp)),
                           !.inst[i].tmp = t,
                           !.inst[i].created = TRUE,
                           !.inst[i].pc = "saving tmp"]
                  \/ race' = [race EXCEPT !.inst[i].tmp = t,
                                          !.inst[i].pc = "done"]
    /\ UNCHANGED <<pathTest, geom, tempTest, promptTest, mainVars>>

\* ProcessAndSave, lines 277-279, of instance i
RaceSaveEnds(i) ==
    /\ race.step = "run"
    /\ race.inst[i].pc = "saving tmp"
    /\ \/ race' = [race EXCEPT
                !.files = WriteFile(@, race.inst[i].tmp, race.inst[i].bmp),
                !.inst[i].pc = "MoveFileExW"]
       \/ race' = [race EXCEPT !.inst[i].pc = "done"]
    /\ UNCHANGED <<pathTest, geom, tempTest, promptTest, mainVars>>

\* ProcessAndSave, lines 281-288, of instance i
RaceReplaceOriginal(i) ==
    /\ race.step = "run"
    /\ race.inst[i].pc = "MoveFileExW"
    /\ LET t == race.inst[i].tmp
           free == t \in DOMAIN race.files /\ ~BeingWrittenByOther(i, t)
       IN  \/ /\ free
              /\ race' = [race EXCEPT
                    !.files = MoveFile(@, t, race.src),
                    !.renamed = Append(@, i),
                    !.inst[i].ok = TRUE,
                    !.inst[i].pc = "done"]
           \/ \E deleted \in BOOLEAN :
                /\ deleted => free
                /\ race' = [race EXCEPT
                      !.files = IF deleted THEN RemoveFile(@, t) ELSE @,
                      !.inst[i].pc = "done"]
    /\ UNCHANGED <<pathTest, geom, tempTest, promptTest, mainVars>>

NextRace ==
    \/ \E i \in Instances : RaceLoad(i)
    \/ \E i \in Instances : RaceSaveBegins(i)
    \/ \E i \in Instances : RaceSaveEnds(i)
    \/ \E i \in Instances : RaceReplaceOriginal(i)

SpecRace == InitRace /\ [][NextRace]_vars

RaceOver == \A i \in Instances : race.inst[i].pc = "done"

\* the instance whose rename happened last
LastRenamer == race.renamed[Len(race.renamed)]

\* C13: when two instances overwrite the same file concurrently, the source
\* never holds a partially written image, it ends holding the complete
\* image of the instance whose rename happened last, and the temporary file
\* of the instance that lost the race is left on disk.
C13_LastRenameWins ==
    race.step = "run" =>
        /\ race.files[race.src].complete
        /\ (RaceOver /\ race.renamed # <<>>) =>
              /\ race.files[race.src] = race.inst[LastRenamer].bmp
              /\ race.inst[Other(LastRenamer)].created =>
                    race.inst[Other(LastRenamer)].tmp \in DOMAIN race.files

----------------------------------------------------------------------------
(* Specification SpecPrompt: the label window alone.  The user edits the    *)
(* text any number of times; the first OK, Cancel or close destroys the     *)
(* window, PromptForText returns, and wWinMain decides whether to go on.    *)

\* texts that do not fit the buffer: 1023 blanks and an "x", and 1024 "x"
LongTexts ==
    {[i \in 1..BufSize |-> IF i < BufSize THEN " " ELSE "x"],
     [i \in 1..BufSize |-> "x"]}

PromptTexts == BoundedSeq(PromptChars, MaxPromptLen) \cup LongTexts

InitPrompt ==
    /\ MainIdle
    /\ pathTest = NoPathTest
    /\ geom = NoGeom
    /\ tempTest = NoTempTest
    /\ race = NoRace
    /\ promptTest = [NoPromptTest EXCEPT !.step = "open"]

\* the user types into the edit control (lines 116-121)
EditText ==
    /\ promptTest.step = "open"
    /\ \E text \in PromptTexts \ {promptTest.text} :
         promptTest' = [promptTest EXCEPT !.text = text]
    /\ UNCHANGED <<pathTest, geom, tempTest, race, mainVars>>

\* InputWndProc, WM_COMMAND IDOK (lines 137-144)
CommandOk ==
    /\ promptTest.step = "open"
    /\ promptTest' = [promptTest EXCEPT
          !.event = "IDOK",
          !.result = Trim(GetWindowTextW(promptTest.text, BufSize)),
          !.accepted = Accepted(Trim(GetWindowTextW(promptTest.text, BufSize))),
          !.step = "destroyed"]
    /\ UNCHANGED <<pathTest, geom, tempTest, race, mainVars>>

\* InputWndProc, WM_COMMAND IDCANCEL (lines 145-148)
CommandCancel ==
    /\ promptTest.step = "open"
    /\ promptTest' = [promptTest EXCEPT
          !.event = "IDCANCEL", !.accepted = FALSE, !.step = "destroyed"]
    /\ UNCHANGED <<pathTest, geom, tempTest, race, mainVars>>

\* InputWndProc, WM_CLOSE (lines 152-155)
WindowClose ==
    /\ promptTest.step = "open"
    /\ promptTest' = [promptTest EXCEPT
          !.event = "WM_CLOSE", !.accepted = FALSE, !.step = "destroyed"]
    /\ UNCHANGED <<pathTest, geom, tempTest, race, mainVars>>

\* PromptForText, lines 199-200: the message loop has ended
PromptForTextReturns ==
    /\ promptTest.step = "destroyed"
    /\ promptTest' = [promptTest EXCEPT
          !.out = IF promptTest.accepted THEN promptTest.result ELSE @,
          !.returned = promptTest.accepted,
          !.step = "returned"]
    /\ UNCHANGED <<pathTest, geom, tempTest, race, mainVars>>

\* wWinMain, lines 326-329: return 0 unless PromptForText returned true
AfterPrompt ==
    /\ promptTest.step = "returned"
    /\ promptTest' = [promptTest EXCEPT
          !.step = IF promptTest.returned THEN "chooser" ELSE "exit"]
    /\ UNCHANGED <<pathTest, geom, tempTest, race, mainVars>>

\* wWinMain, lines 332-345: the chooser; Cancel returns 0, Yes and No go on
\* to ProcessAndSave(path, label, ...)
AfterChooser ==
    /\ promptTest.step = "chooser"
    /\ \E choice \in {"IDYES", "IDNO", "IDCANCEL"} :
         promptTest' = [promptTest EXCEPT
             !.choice = choice,
             !.step = IF choice = "IDCANCEL" THEN "exit" ELSE "ProcessAndSave"]
    /\ UNCHANGED <<pathTest, geom, tempTest, race, mainVars>>

NextPrompt ==
    \/ EditText
    \/ CommandOk
    \/ CommandCancel
    \/ WindowClose
    \/ PromptForTextReturns
    \/ AfterPrompt
    \/ AfterChooser

SpecPrompt == InitPrompt /\ [][NextPrompt]_vars

\* C14: whatever the user does in the label window, PromptForText returns
\* accepted only with a label that is non-empty and neither starts nor ends
\* with whitespace, and ProcessAndSave is only reached with a label that is
\* not blank.
C14_AcceptsOnlyTrimmedLabel ==
    /\ (promptTest.step \in {"returned", "chooser", "ProcessAndSave", "exit"}
          /\ promptTest.returned) =>
          /\ promptTest.event = "IDOK"
          /\ promptTest.out # <<>>
          /\ promptTest.out[1] \notin Whitespace
          /\ promptTest.out[Len(promptTest.out)] \notin Whitespace
    /\ promptTest.step = "ProcessAndSave" =>
          /\ promptTest.returned
          /\ ~AllWhitespace(promptTest.out)
    /\ (promptTest.step = "exit" /\ promptTest.event = "IDOK"
          /\ promptTest.choice = "none") =>
          AllWhitespace(GetWindowTextW(promptTest.text, BufSize))
    /\ promptTest.step # "open" /\ promptTest.event = "IDOK" =>
          Len(promptTest.result) < BufSize

\* OK on a tab, "x" and a blank hands the label "x" to ProcessAndSave
C14_Witness ==
    /\ promptTest.step = "ProcessAndSave"
    /\ promptTest.text = <<"\t", "x", " ">>
    /\ promptTest.out = <<"x">>

----------------------------------------------------------------------------
(* Specification SpecPath: PathWithSuffixBeforeExt on bounded inputs *)

InitPath ==
    /\ MainIdle
    /\ geom = NoGeom
    /\ tempTest = NoTempTest
    /\ promptTest = NoPromptTest
    /\ race = NoRace
    /\ \E P \in BoundedSeq(PathChars, MaxPathLen) :
      \E S1 \in BoundedSeq(PathChars, MaxSuffixLen) :
        \E S2 \in BoundedSeq(PathChars, MaxSuffixLen) :
            pathTest = [P |-> P, S1 |-> S1, S2 |-> S2,
                        r1 |-> <<>>, r2 |-> <<>>, step |-> 0]

\* first call: r1 = PathWithSuffixBeforeExt(P, S1)
ApplyFirst ==
    /\ pathTest.step = 0
    /\ pathTest' = [pathTest EXCEPT
            !.r1 = PathWithSuffixBeforeExt(pathTest.P, pathTest.S1),
            !.step = 1]
    /\ UNCHANGED <<geom, tempTest, promptTest, race, mainVars>>

\* second call on the first result: r2 = PathWithSuffixBeforeExt(r1, S2)
ApplySecond ==
    /\ pathTest.step = 1
    /\ pathTest' = [pathTest EXCEPT
            !.r2 = PathWithSuffixBeforeExt(pathTest.r1, pathTest.S2),
            !.step = 2]
    /\ UNCHANGED <<geom, tempTest, promptTest, race, mainVars>>

NextPath == ApplyFirst \/ ApplySecond

SpecPath == InitPath /\ [][NextPath]_vars

----------------------------------------------------------------------------
(* Path claims *)

\* C10: for every path P and suffix S, PathWithSuffixBeforeExt(P, S) is P
\* with S inserted immediately before the last '.' that follows the last
\* separator, and P followed by S when there is no such '.'.
C10_MatchesReference ==
    pathTest.step >= 1 =>
        pathTest.r1 = RefInsertBeforeExt(pathTest.P, pathTest.S1)

\* C10 witness: a path whose only '.' lies in a parent directory got the
\* suffix appended.
C10_Witness ==
    /\ pathTest.step >= 1
    /\ pathTest.P = <<".", "/", "a">>
    /\ pathTest.S1 = <<"a">>
    /\ pathTest.r1 = <<".", "/", "a", "a">>

\* C9 as stated: two successive insertions equal one insertion of S1 S2
C9_Original ==
    pathTest.step = 2 =>
        pathTest.r2 = RefInsertBeforeExt(pathTest.P, pathTest.S1 \o pathTest.S2)

\* C9 amended: two successive insertions equal one insertion of S1 S2
\* whenever P has an extension or S1 has no '.' after its last separator.
C9_Associative ==
    (/\ pathTest.step = 2
     /\ (HasExtension(pathTest.P) \/ ~HasExtension(pathTest.S1)))
        => pathTest.r2 = RefInsertBeforeExt(pathTest.P, pathTest.S1 \o pathTest.S2)

\* C9 witness: both suffixes non-empty, S1 a '.', inserted before the
\* extension of P.
C9_Witness ==
    /\ pathTest.step = 2
    /\ pathTest.P = <<"a", ".", "a">>
    /\ pathTest.S1 = <<".">>
    /\ pathTest.S2 = <<"a">>
    /\ pathTest.r2 = <<"a", ".", "a", ".", "a">>

=============================================================================
